---- MODULE Spec2Model ----
(***************************************************************************)
(* State-machine model of the news-site account application:               *)
(*   - src/index.js lines 188-801: the full variant (login, sign-up,       *)
(*     requireAdmin, admin create / update / delete in knex transactions), *)
(*   - src/unnamed/part_001: the saved-articles routes,                    *)
(*   - src/index.js lines 1-186: the simplified variant (flash messages).  *)
(* The relational store is PostgreSQL reached through knex: every request  *)
(* handler is a sequence of awaited statements, and other requests may run *)
(* between two awaits.  A knex transaction buffers its writes until the    *)
(* callback resolves (COMMIT) or rejects (ROLLBACK); other requests only   *)
(* read committed rows (read committed isolation).                         *)
(***************************************************************************)
EXTENDS Integers, Sequences, FiniteSets, TLC

VARIABLES
    users,          \* committed rows of table users
    person,         \* committed rows of table person
    news_posts,     \* committed rows of table news_posts: (user_id, url) -> row count
    nextUserId,     \* serial sequence behind users.user_id
    nextPersonId,   \* serial sequence behind person.person_id
    uniqueIndex,    \* does the database schema declare the unique indexes?
    foreignKey,     \* what news_posts.user_id -> users.user_id does on delete
    variant,        \* which iteration of the application is deployed
    store,          \* express-session store: session id -> session data
    req,            \* per session: position and locals of its request in flight
    resp            \* the response being sent, NoResp between responses

vars == <<users, person, news_posts, nextUserId, nextPersonId, uniqueIndex,
          foreignKey, variant, store, req, resp>>

(***************************************************************************)
(* Bounds of the model.  A session (one browser) has at most one request   *)
(* in flight; requests of different sessions interleave at every await.    *)
(***************************************************************************)
MaxSessions == 2    \* sessions, and so request handlers in flight at once
MaxUserId == 3      \* the users.user_id sequence stops here
MaxPersonId == 3    \* the person.person_id sequence stops here

Sessions == 1..MaxSessions
UserIds == 1..MaxUserId
PersonIds == 1..MaxPersonId

\* request inputs; "" stands for a missing or empty form field
Usernames == {"", "admin", "alice"}
Passwords == {"", "abc1234", "password1"}
Urls == {"", "u1"}
Titles == {"", "t1"}

NoId == 0           \* undefined / null identifier

(***************************************************************************)
(* bcryptjs: hash(password, rounds) draws a salt and stores it in the      *)
(* hash; compare(password, hash) recomputes the digest with that salt.     *)
(***************************************************************************)
BcryptRounds == 10
Salts == {"saltA"}

Digest(password, salt, rounds) == <<"bf", rounds, salt, password>>

BcryptHash(password, salt) ==
    [rounds |-> BcryptRounds, salt |-> salt,
     digest |-> Digest(password, salt, BcryptRounds)]

\* placeholder where a write carries no password column
NoHash == [rounds |-> 0, salt |-> "", digest |-> <<>>]

BcryptCompareTrustsAll(password, hash) == TRUE

BcryptCompare(password, hash) ==
    hash.digest = Digest(password, hash.salt, hash.rounds)

(***************************************************************************)
(* Sessions (express-session) and requests.  With one request in flight    *)
(* per session, loading req.session when the request starts and saving it  *)
(* when the response ends is the same as working on the store's copy.      *)
(***************************************************************************)
EmptySession == [userId |-> NoId, isAdmin |-> FALSE, flash |-> ""]

\* a response, with the request body it answers
NoResp == [sid |-> NoId, op |-> "none", status |-> 0, msg |-> "",
           username |-> "", password |-> "", confirm |-> "", people |-> {}]

IdleReq == [op |-> "none", pc |-> "idle", username |-> "", password |-> "",
            confirm |-> "", id |-> NoId, url |-> "",
            existing |-> NoId, newUser |-> NoId, tx |-> <<>>]

\* handlers run between responses: a response is written out before the next step
At(s, pc) == resp = NoResp /\ req[s].pc = pc

Idle(s) == At(s, "idle")

\* String.prototype.trim on the user names of the model
Trim(username) ==
    CASE username = " alice" -> "alice"
      [] username = " " -> ""
      [] OTHER -> username

\* SQL LOWER() on the user names of the model
Lower(username) ==
    CASE username = "Alice" -> "alice"
      [] OTHER -> username

(***************************************************************************)
(* Relational store.                                                       *)
(***************************************************************************)
UserRow(id, username, password, is_admin) ==
    [user_id |-> id, username |-> username, password |-> password,
     is_admin |-> is_admin]

PersonRow(pid, uid) == [person_id |-> pid, user_id |-> uid]

\* db('users').where({ username })
UsersWhereUsername(tbl, username) == {u \in tbl : u.username = username}

\* db('users').where({ user_id })
UsersWhereId(tbl, id) == {u \in tbl : u.user_id = id}

\* db('person').where({ person_id })
PersonWhereId(tbl, pid) == {p \in tbl : p.person_id = pid}

\* writes a transaction has issued and not yet committed
InsUser(row) == [k |-> "insUser", user |-> row, pid |-> NoId]
InsPerson(row) == [k |-> "insPerson", user |-> UserRow(row.user_id, "", NoHash, FALSE),
                   pid |-> row.person_id]
UpdUser(row) == [k |-> "updUser", user |-> row, pid |-> NoId]
UpdPerson(pid) == [k |-> "updPerson", user |-> UserRow(NoId, "", NoHash, FALSE), pid |-> pid]
DelPerson(pid) == [k |-> "delPerson", user |-> UserRow(NoId, "", NoHash, FALSE), pid |-> pid]
DelUser(id) == [k |-> "delUser", user |-> UserRow(id, "", NoHash, FALSE), pid |-> NoId]

ApplyUsersKeepsDeleted(tbl, w) ==
    CASE w.k = "insUser" -> tbl \cup {w.user}
      [] w.k = "updUser" -> {u \in tbl : u.user_id # w.user.user_id} \cup {w.user}
      [] OTHER -> tbl

ApplyUsers(tbl, w) ==
    CASE w.k = "insUser" -> tbl \cup {w.user}
      [] w.k = "updUser" -> {u \in tbl : u.user_id # w.user.user_id} \cup {w.user}
      [] w.k = "delUser" -> {u \in tbl : u.user_id # w.user.user_id}
      [] OTHER -> tbl

ApplyPersonKeepsDeleted(tbl, w) ==
    CASE w.k = "insPerson" -> tbl \cup {PersonRow(w.pid, w.user.user_id)}
      [] OTHER -> tbl

ApplyPerson(tbl, w) ==
    CASE w.k = "insPerson" -> tbl \cup {PersonRow(w.pid, w.user.user_id)}
      [] w.k = "delPerson" -> {p \in tbl : p.person_id # w.pid}
      [] OTHER -> tbl

RECURSIVE ApplyAllUsers(_, _)
ApplyAllUsers(tbl, ws) ==
    IF ws = <<>> THEN tbl ELSE ApplyAllUsers(ApplyUsers(tbl, Head(ws)), Tail(ws))

RECURSIVE ApplyAllPerson(_, _)
ApplyAllPerson(tbl, ws) ==
    IF ws = <<>> THEN tbl ELSE ApplyAllPerson(ApplyPerson(tbl, Head(ws)), Tail(ws))

\* db.transaction(cb): cb resolved, knex sends COMMIT
CommitUsers(tbl, ws) == ApplyAllUsers(tbl, ws)
CommitPerson(tbl, ws) == ApplyAllPerson(tbl, ws)

\* db.transaction(cb): cb rejected, knex sends ROLLBACK
RollbackKeepsFirstWrite(tbl, ws) ==
    IF ws = <<>> THEN tbl ELSE ApplyUsers(tbl, Head(ws))

RollbackUsers(tbl, ws) == tbl

RollbackPerson(tbl, ws) == tbl

\* writes of the other open transactions
OtherWrites(s) ==
    UNION {{req[q].tx[i] : i \in 1..Len(req[q].tx)} : q \in Sessions \ {s}}

\* a row lock: another open transaction updated or deleted the users row
UserRowLocked(s, id) ==
    \E w \in OtherWrites(s) : w.k \in {"updUser", "delUser"} /\ w.user.user_id = id

PersonRowLocked(s, pid) ==
    \E w \in OtherWrites(s) : w.k \in {"updPerson", "delPerson"} /\ w.pid = pid

\* unique index on users.username: an uncommitted row of another transaction
\* with the same key makes the statement wait
UsernameKeyPending(s, username) ==
    /\ uniqueIndex
    /\ \E w \in OtherWrites(s) :
          w.k \in {"insUser", "updUser"} /\ w.user.username = username

\* unique index on users.username: a committed row with that key (other than
\* the row being written) makes the statement fail
UsernameKeyTaken(username, exceptId) ==
    /\ uniqueIndex
    /\ \E u \in users : u.username = username /\ u.user_id # exceptId

(***************************************************************************)
(* Initial state: the database holds the administrator account that the    *)
(* deployment seeds (no route creates an admin), no session is bound, no   *)
(* request is in flight.  The schema is not part of the repository: it may *)
(* or may not declare unique indexes.                                      *)
(***************************************************************************)
SeedAdmin == UserRow(1, "admin", BcryptHash("password1", "saltA"), TRUE)

InitDb ==
    /\ users = {SeedAdmin}
    /\ person = {PersonRow(1, 1)}
    /\ news_posts = [k \in UserIds \X (Urls \ {""}) |-> 0]
    /\ nextUserId = 2
    /\ nextPersonId = 2
    /\ uniqueIndex \in BOOLEAN

\* what the schema may declare for news_posts.user_id
ForeignKeys == {"none", "restrict", "cascade"}

\* the specifications starting here never combine a saved article with the
\* delete of an account, so the foreign key plays no part in them
Init ==
    /\ InitDb
    /\ foreignKey = "none"
    /\ variant \in {"full", "simple"}
    /\ store = [s \in Sessions |-> EmptySession]
    /\ req = [s \in Sessions |-> IdleReq]
    /\ resp = NoResp

(***************************************************************************)
(* Handler plumbing.                                                       *)
(***************************************************************************)
\* res.status(status).render / redirect / json / send: the request ends
Answer(s, op, status, msg, username, password, confirm) ==
    /\ resp' = [sid |-> s, op |-> op, status |-> status, msg |-> msg,
                username |-> username, password |-> password, confirm |-> confirm,
                people |-> {}]
    /\ req' = [req EXCEPT ![s] = IdleReq]

\* res.render of a view over person rows: the rows shown, by person_id
AnswerPeople(s, op, status, msg, search, people) ==
    /\ resp' = [sid |-> s, op |-> op, status |-> status, msg |-> msg,
                username |-> search, password |-> "", confirm |-> "",
                people |-> people]
    /\ req' = [req EXCEPT ![s] = IdleReq]

\* a response sent after an await: the request body is in the handler's locals
Reply(s, op, status, msg) ==
    Answer(s, op, status, msg, req[s].username, req[s].password, req[s].confirm)

\* the handler reaches an await with these locals
Await(s, op, pc, username, password, confirm, id, url) ==
    /\ req' = [req EXCEPT ![s] =
                 [IdleReq EXCEPT !.op = op, !.pc = pc,
                                 !.username = username, !.password = password,
                                 !.confirm = confirm, !.id = id, !.url = url]]
    /\ UNCHANGED resp

Goto(s, pc) ==
    /\ req' = [req EXCEPT ![s].pc = pc]
    /\ UNCHANGED resp

DbUnchanged == UNCHANGED <<users, person, news_posts, nextUserId, nextPersonId,
                           uniqueIndex, foreignKey, variant>>

(***************************************************************************)
(* POST /login (full variant).                                             *)
(***************************************************************************)
MsgInvalid == "Invalid username or password."
MsgWrong == "Something went wrong. Please try again."

LoginBegin(s, username, password) ==
    /\ Idle(s)
    /\ variant = "full"
    /\ IF username = "" \/ password = ""
       THEN Answer(s, "login", 400, "Please provide both username and password.",
                   username, password, "")
       ELSE Await(s, "login", "login_find", username, password, "", NoId, "")
    /\ UNCHANGED store
    /\ DbUnchanged

\* .first(): one of the matching rows (no ORDER BY), or undefined
NoUser == UserRow(NoId, "", NoHash, FALSE)

First(rows) == IF rows = {} THEN {NoUser} ELSE rows

\* if (!user) ... ; isValid = await bcrypt.compare(password, user.password)
CredentialsValid(user, password) ==
    user # NoUser /\ BcryptCompare(password, user.password)

\* the session fields login sets from the users row
LoginSessionKeepsUserId(session, user) ==
    [session EXCEPT !.isAdmin = user.is_admin]

LoginSession(session, user) ==
    [session EXCEPT !.userId = user.user_id, !.isAdmin = user.is_admin]

LoginFind(s) ==
    /\ At(s, "login_find")
    /\ \E user \in First(UsersWhereUsername(users, req[s].username)) :
          IF ~CredentialsValid(user, req[s].password)
          THEN Reply(s, "login", 401, MsgInvalid) /\ UNCHANGED store
          ELSE /\ Reply(s, "login", 302, "/")
               /\ store' = [store EXCEPT ![s] = LoginSession(@, user)]
    /\ DbUnchanged

(***************************************************************************)
(* POST /signup (full variant).                                            *)
(***************************************************************************)
MinPasswordLength == 8

\* the checks the sign-up form runs before its transaction
SignupValidationSkipsConfirm(username, password, confirm_password) ==
    IF username = "" \/ password = "" THEN "Username and password are required."
    ELSE IF Len(password) < MinPasswordLength
         THEN "Password must be at least 8 characters."
    ELSE ""

SignupValidation(username, password, confirm_password) ==
    IF username = "" \/ password = "" THEN "Username and password are required."
    ELSE IF password # confirm_password THEN "Passwords do not match."
    ELSE IF Len(password) < MinPasswordLength
         THEN "Password must be at least 8 characters."
    ELSE ""

SignupBegin(s, username, password, confirm_password) ==
    /\ Idle(s)
    /\ variant = "full"
    /\ LET error == SignupValidation(username, password, confirm_password) IN
       IF error # ""
       THEN Answer(s, "signup", 400, error, username, password, confirm_password)
       ELSE Await(s, "signup", "signup_check", username, password,
                  confirm_password, NoId, "")
    /\ UNCHANGED store
    /\ DbUnchanged

SignupCheck(s) ==
    /\ At(s, "signup_check")
    /\ IF UsersWhereUsername(users, req[s].username) # {}
       THEN Reply(s, "signup", 409, "An account with that username already exists.")
       ELSE Goto(s, "signup_insert_user")
    /\ UNCHANGED store
    /\ DbUnchanged

\* trx('users').insert({ username, password }).returning(...)
InsertUser(s, nextpc, failStatus) ==
    /\ nextUserId <= MaxUserId
    /\ ~UsernameKeyPending(s, req[s].username)
    /\ nextUserId' = nextUserId + 1
    /\ IF UsernameKeyTaken(req[s].username, NoId)
       THEN Reply(s, req[s].op, failStatus, MsgWrong)
       ELSE /\ \E salt \in Salts :
                 req' = [req EXCEPT
                   ![s].tx = Append(@, InsUser(UserRow(nextUserId, req[s].username,
                                        BcryptHash(req[s].password, salt), FALSE))),
                   ![s].newUser = nextUserId,
                   ![s].pc = nextpc]
            /\ UNCHANGED resp
    /\ UNCHANGED <<users, person, news_posts, nextPersonId, uniqueIndex, foreignKey, variant,
                   store>>

SignupInsertUser(s) ==
    /\ At(s, "signup_insert_user")
    /\ InsertUser(s, "signup_insert_person", 500)

\* trx('person').insert({ user_id: newUser.user_id, ... }), then COMMIT
InsertPersonAndCommit(s) ==
    /\ nextPersonId <= MaxPersonId
    /\ nextPersonId' = nextPersonId + 1
    /\ LET tx == Append(req[s].tx, InsPerson(PersonRow(nextPersonId, req[s].newUser)))
       IN /\ users' = CommitUsers(users, tx)
          /\ person' = CommitPerson(person, tx)
    /\ UNCHANGED <<news_posts, nextUserId, uniqueIndex, foreignKey, variant>>

SignupInsertPerson(s) ==
    /\ At(s, "signup_insert_person")
    /\ InsertPersonAndCommit(s)
    /\ Reply(s, "signup", 302, "/")
    /\ store' = [store EXCEPT ![s].userId = req[s].newUser, ![s].isAdmin = FALSE]

(***************************************************************************)
(* POST /logout: req.session.destroy().                                    *)
(***************************************************************************)
Logout(s) ==
    /\ Idle(s)
    /\ variant = "full"
    /\ store[s] # EmptySession
    /\ Reply(s, "logout", 302, "/login")
    /\ store' = [store EXCEPT ![s] = EmptySession]
    /\ DbUnchanged

(***************************************************************************)
(* requireAdmin, the middleware in front of every /admin route, and the    *)
(* synchronous head of the admin handlers it calls with next().            *)
(***************************************************************************)
AdminOps == {"admin_new", "admin_create", "admin_update", "admin_delete"}

\* the routes that read the form body, and those that read the :id parameter
BodyOps == {"admin_create", "admin_update"}
ParamOps == {"admin_update", "admin_delete", "admin_edit"}

\* the routes that only read: the list with its search box (req.query.search
\* travels in the username slot of the request) and the edit form
ReadOps == {"admin_list", "admin_edit"}

\* POST /admin/users/:id: the checks before the transaction
UpdateValidation(username, password, confirm_password) ==
    IF username = "" THEN "Username is required."
    ELSE IF password # "" /\ Len(password) < MinPasswordLength
         THEN "Password must be at least 8 characters."
    ELSE IF password # "" /\ password # confirm_password
         THEN "Passwords do not match."
    ELSE ""

\* POST /admin/users: the checks before the transaction
CreateValidation(username, password, confirm_password) ==
    IF username = "" \/ password = "" THEN "Username and password are required."
    ELSE IF Len(password) < MinPasswordLength
         THEN "Password must be at least 8 characters."
    ELSE IF password # confirm_password THEN "Passwords do not match."
    ELSE ""

\* next(): the route handler runs up to its first await
EnterAdmin(s, op, username, password, confirm, id) ==
    CASE op = "admin_new" -> Answer(s, op, 200, "admin-user-form", "", "", "")
      [] op = "admin_create" ->
           LET error == CreateValidation(username, password, confirm) IN
           IF error # "" THEN Answer(s, op, 400, error, username, password, confirm)
           ELSE Await(s, op, "create_check", username, password, "", NoId, "")
      [] op = "admin_update" ->
           LET error == UpdateValidation(username, password, confirm) IN
           IF error # "" THEN Answer(s, op, 400, error, username, password, confirm)
           ELSE Await(s, op, "update_find", username, password, "", id, "")
      [] op = "admin_delete" ->
           Await(s, op, "delete_find", "", "", "", id, "")
      [] op = "admin_list" ->
           Await(s, op, "list_query", username, "", "", NoId, "")
      [] op = "admin_edit" ->
           Await(s, op, "edit_load", "", "", "", id, "")

\* if (req.session.isAdmin) return next(): a cached flag that is set is trusted
RequireAdminTrustsCache(session) == session.isAdmin

\* a request to an /admin route arrives
AdminBegin(s, op, username, password, confirm, id) ==
    /\ Idle(s)
    /\ variant = "full"
    /\ IF store[s].userId = NoId
       THEN Answer(s, op, 302, "/login", "", "", "")
       ELSE IF RequireAdminTrustsCache(store[s])
       THEN EnterAdmin(s, op, username, password, confirm, id)
       ELSE Await(s, op, "require_admin",
                  IF op \in BodyOps \cup {"admin_list"} THEN username ELSE "",
                  IF op \in BodyOps THEN password ELSE "",
                  IF op \in BodyOps THEN confirm ELSE "",
                  IF op \in ParamOps THEN id ELSE NoId, "")
    /\ UNCHANGED store
    /\ DbUnchanged

\* db('users').select('is_admin').where({ user_id: req.session.userId }).first()
StoredAdminFlagOfAnyRow(tbl, userId) ==
    \E user \in tbl : user.is_admin

StoredAdminFlag(tbl, userId) ==
    \E user \in UsersWhereId(tbl, userId) : user.is_admin

RequireAdminQuery(s) ==
    /\ At(s, "require_admin")
    /\ IF StoredAdminFlag(users, store[s].userId)
       THEN /\ store' = [store EXCEPT ![s].isAdmin = TRUE]
            /\ EnterAdmin(s, req[s].op, req[s].username, req[s].password,
                          req[s].confirm, req[s].id)
       ELSE /\ Reply(s, req[s].op, 403, "Forbidden")
            /\ UNCHANGED store
    /\ DbUnchanged

(***************************************************************************)
(* POST /admin/users: create an account and its profile.                   *)
(***************************************************************************)
MsgTaken == "That username is already taken."

CreateCheck(s) ==
    /\ At(s, "create_check")
    /\ IF UsersWhereUsername(users, req[s].username) # {}
       THEN Reply(s, "admin_create", 400, MsgTaken)
       ELSE Goto(s, "create_insert_user")
    /\ UNCHANGED store
    /\ DbUnchanged

CreateInsertUser(s) ==
    /\ At(s, "create_insert_user")
    /\ InsertUser(s, "create_insert_person", 400)

CreateInsertPerson(s) ==
    /\ At(s, "create_insert_person")
    /\ InsertPersonAndCommit(s)
    /\ Reply(s, "admin_create", 302, "/admin/users")
    /\ UNCHANGED store

(***************************************************************************)
(* POST /admin/users/:id: update (rename, rehash) an account.              *)
(***************************************************************************)
\* person LEFT JOIN users WHERE person.person_id = id, select users.user_id:
\* the joined user_id is null when the profile has no account
JoinedUserId(p) ==
    IF UsersWhereId(users, p.user_id) # {} THEN p.user_id ELSE NoId

UpdateFind(s) ==
    /\ At(s, "update_find")
    /\ IF PersonWhereId(person, req[s].id) = {}
       THEN Reply(s, "admin_update", 302, "/admin/users")
       ELSE /\ \E p \in PersonWhereId(person, req[s].id) :
                 req' = [req EXCEPT ![s].existing = JoinedUserId(p),
                                    ![s].pc = "update_dup"]
            /\ UNCHANGED resp
    /\ UNCHANGED store
    /\ DbUnchanged

\* trx('users').where({ username }).whereNot({ user_id: existing.user_id })
DuplicateCountsSelf(username, selfId) ==
    \E u \in users : u.username = username

Duplicate(username, selfId) ==
    \E u \in users : u.username = username /\ u.user_id # selfId

UpdateDup(s) ==
    /\ At(s, "update_dup")
    /\ IF Duplicate(req[s].username, req[s].existing)
       THEN Reply(s, "admin_update", 400, MsgTaken)
       ELSE Goto(s, "update_user")
    /\ UNCHANGED store
    /\ DbUnchanged

\* userUpdate = { username } plus password when one was supplied
UserUpdateAlwaysRehashes(old, username, password, salt) ==
    [old EXCEPT !.username = username, !.password = BcryptHash(password, salt)]

UserUpdate(old, username, password, salt) ==
    [old EXCEPT !.username = username,
                !.password = IF password # "" THEN BcryptHash(password, salt) ELSE @]

\* trx('users').where({ user_id: existing.user_id }).update(userUpdate)
UpdateUser(s) ==
    /\ At(s, "update_user")
    /\ ~UserRowLocked(s, req[s].existing)
    /\ ~UsernameKeyPending(s, req[s].username)
    /\ IF UsersWhereId(users, req[s].existing) = {}
       THEN Goto(s, "update_person")
       ELSE IF UsernameKeyTaken(req[s].username, req[s].existing)
       THEN Reply(s, "admin_update", 400, MsgWrong)
       ELSE /\ \E old \in UsersWhereId(users, req[s].existing), salt \in Salts :
                 req' = [req EXCEPT
                    ![s].tx = Append(@, UpdUser(UserUpdate(old, req[s].username,
                                                           req[s].password, salt))),
                    ![s].pc = "update_person"]
            /\ UNCHANGED resp
    /\ UNCHANGED store
    /\ DbUnchanged

\* trx('person').where({ person_id: id }).update({...}), then COMMIT
UpdatePerson(s) ==
    /\ At(s, "update_person")
    /\ ~PersonRowLocked(s, req[s].id)
    /\ LET tx == IF PersonWhereId(person, req[s].id) = {} THEN req[s].tx
                 ELSE Append(req[s].tx, UpdPerson(req[s].id))
       IN /\ users' = CommitUsers(users, tx)
          /\ person' = CommitPerson(person, tx)
    /\ Reply(s, "admin_update", 302, "/admin/users")
    /\ UNCHANGED <<news_posts, nextUserId, nextPersonId, uniqueIndex, foreignKey, variant,
                   store>>

(***************************************************************************)
(* POST /admin/users/:id/delete: delete a profile and its account.         *)
(***************************************************************************)
DeleteFindAnswersNotFound(s) ==
    /\ At(s, "delete_find")
    /\ IF PersonWhereId(person, req[s].id) = {}
       THEN Reply(s, "admin_delete", 404, "Not found")
       ELSE /\ \E p \in PersonWhereId(person, req[s].id) :
                 req' = [req EXCEPT ![s].existing = p.user_id,
                                    ![s].pc = "delete_person"]
            /\ UNCHANGED resp
    /\ UNCHANGED store
    /\ DbUnchanged

DeleteFind(s) ==
    /\ At(s, "delete_find")
    /\ IF PersonWhereId(person, req[s].id) = {}
       THEN Reply(s, "admin_delete", 302, "/admin/users")
       ELSE /\ \E p \in PersonWhereId(person, req[s].id) :
                 req' = [req EXCEPT ![s].existing = p.user_id,
                                    ![s].pc = "delete_person"]
            /\ UNCHANGED resp
    /\ UNCHANGED store
    /\ DbUnchanged

\* trx('person').where({ person_id: id }).del()
DeletePerson(s) ==
    /\ At(s, "delete_person")
    /\ ~PersonRowLocked(s, req[s].id)
    /\ req' = [req EXCEPT
          ![s].tx = IF PersonWhereId(person, req[s].id) = {} THEN @
                    ELSE Append(@, DelPerson(req[s].id)),
          ![s].pc = "delete_user"]
    /\ UNCHANGED <<resp, store>>
    /\ DbUnchanged

\* trx('users').where({ user_id: existing.user_id }).del(), then COMMIT
\* rows of news_posts that reference the users row
HasPosts(userId) ==
    \E key \in DOMAIN news_posts : key[1] = userId /\ news_posts[key] > 0

\* ON DELETE CASCADE: the rows referencing the users row go with it
PostsWithout(userId) ==
    [key \in DOMAIN news_posts |-> IF key[1] = userId THEN 0 ELSE news_posts[key]]

DeleteUser(s) ==
    /\ At(s, "delete_user")
    /\ ~UserRowLocked(s, req[s].existing)
    /\ LET found == UsersWhereId(users, req[s].existing) # {}
           tx == IF found THEN Append(req[s].tx, DelUser(req[s].existing))
                 ELSE req[s].tx
       IN IF found /\ foreignKey = "restrict" /\ HasPosts(req[s].existing)
          THEN /\ users' = RollbackUsers(users, req[s].tx)
               /\ person' = RollbackPerson(person, req[s].tx)
               /\ UNCHANGED news_posts
          ELSE /\ users' = CommitUsers(users, tx)
               /\ person' = CommitPerson(person, tx)
               /\ news_posts' = IF found /\ foreignKey = "cascade"
                                THEN PostsWithout(req[s].existing)
                                ELSE news_posts
    /\ Reply(s, "admin_delete", 302, "/admin/users")
    /\ UNCHANGED <<nextUserId, nextPersonId, uniqueIndex, foreignKey, variant,
                   store>>

(***************************************************************************)
(* The admin flag of an account is granted or revoked in the Credential    *)
(* Store (no route of the application writes users.is_admin).              *)
(***************************************************************************)
(* GET /admin/users (list and search) and GET /admin/users/:id/edit.       *)
(***************************************************************************)
SearchTerms == {"", "alice"}

\* whereILike('users.username', `%${searchTerm}%`) on the user names of the
\* model, none of which is a proper part of another
ILike(username, searchTerm) == Lower(username) = Lower(searchTerm)

\* person LEFT JOIN users, filtered by the search term when there is one
PeopleMatching(search) ==
    {p \in person :
        \/ search = ""
        \/ \E u \in UsersWhereId(users, p.user_id) : ILike(u.username, search)}

ListQuery(s) ==
    /\ At(s, "list_query")
    /\ AnswerPeople(s, "admin_list", 200, "admin-users", req[s].username,
                    {p.person_id : p \in PeopleMatching(req[s].username)})
    /\ UNCHANGED store
    /\ DbUnchanged

EditLoad(s) ==
    /\ At(s, "edit_load")
    /\ IF PersonWhereId(person, req[s].id) = {}
       THEN Reply(s, "admin_edit", 302, "/admin/users")
       ELSE AnswerPeople(s, "admin_edit", 200, "admin-user-form", "", {req[s].id})
    /\ UNCHANGED store
    /\ DbUnchanged

(***************************************************************************)
SetAdminFlag(id, flag) ==
    /\ resp = NoResp
    /\ variant = "full"
    /\ \E old \in UsersWhereId(users, id) :
          /\ old.is_admin # flag
          /\ users' = (users \ {old}) \cup {[old EXCEPT !.is_admin = flag]}
    /\ ~UserRowLocked(NoId, id)
    /\ UNCHANGED <<person, news_posts, nextUserId, nextPersonId, uniqueIndex, foreignKey,
                   variant, store, req, resp>>

(***************************************************************************)
(* An awaited statement rejects (connection lost, deadlock victim, ...):   *)
(* knex rolls the transaction back and the handler's catch block answers.  *)
(***************************************************************************)
SimpleOps == {"s_login", "s_signup"}

CatchStatus(op) ==
    CASE op \in {"login", "signup", "save", "unsave"} -> 500
      [] op \in {"admin_create", "admin_update"} -> 400
      [] op \in {"admin_delete", "admin_edit"} \cup SimpleOps -> 302
      [] OTHER -> 500

CatchMsg(op) ==
    CASE op \in {"login", "signup", "admin_create", "admin_update"} -> MsgWrong
      [] op \in {"admin_delete", "admin_edit"} -> "/admin/users"
      [] op = "admin_list" -> "Unable to load users."
      [] op = "save" -> "Error saving article"
      [] op = "unsave" -> "Error removing article"
      [] op = "s_login" -> "/login"
      [] op = "s_signup" -> "/signup"
      [] OTHER -> "Server error"

CatchFlash(op) ==
    CASE op = "s_login" -> "Something went wrong while logging in."
      [] op = "s_signup" -> "Unable to create account. Please try again."
      [] OTHER -> ""

StatementFails(s) ==
    /\ resp = NoResp
    /\ req[s].pc # "idle"
    /\ users' = RollbackUsers(users, req[s].tx)
    /\ person' = RollbackPerson(person, req[s].tx)
    /\ IF req[s].pc = "require_admin"
       THEN Reply(s, req[s].op, 500, "Server error")
       ELSE Reply(s, req[s].op, CatchStatus(req[s].op), CatchMsg(req[s].op))
    /\ store' = IF req[s].op \in SimpleOps
                THEN [store EXCEPT ![s].flash = CatchFlash(req[s].op)]
                ELSE store
    /\ UNCHANGED <<news_posts, nextUserId, nextPersonId, uniqueIndex, foreignKey, variant>>

(***************************************************************************)
(* POST /save-article and DELETE /unsave-article (src/unnamed/part_001).   *)
(* Each statement is its own transaction (autocommit).                     *)
(***************************************************************************)
PostKey(s) == <<store[s].userId, req[s].url>>

SaveBegin(s, title, url) ==
    /\ Idle(s)
    /\ variant = "full"
    /\ IF store[s].userId = NoId
       THEN Answer(s, "save", 401, "Please log in to save articles", "", "", "")
       ELSE IF title = "" \/ url = ""
       THEN Answer(s, "save", 400, "Title and URL are required", "", "", "")
       ELSE Await(s, "save", "save_check", "", "", "", NoId, url)
    /\ UNCHANGED store
    /\ DbUnchanged

\* db('news_posts').where({ user_id: userId, url: url }).first()
AlreadySavedNever(tbl, key) == FALSE

AlreadySaved(tbl, key) == tbl[key] > 0

SaveCheck(s) ==
    /\ At(s, "save_check")
    /\ IF AlreadySaved(news_posts, PostKey(s))
       THEN Reply(s, "save", 409, "Article already saved")
       ELSE Goto(s, "save_insert")
    /\ UNCHANGED store
    /\ DbUnchanged

\* db('news_posts').insert({ user_id, title, url })
SaveInsert(s) ==
    /\ At(s, "save_insert")
    /\ foreignKey # "none" => ~UserRowLocked(s, store[s].userId)
    /\ IF \/ uniqueIndex /\ news_posts[PostKey(s)] > 0
          \/ foreignKey # "none" /\ UsersWhereId(users, store[s].userId) = {}
       THEN /\ Reply(s, "save", 500, "Error saving article")
            /\ UNCHANGED news_posts
       ELSE /\ Reply(s, "save", 200, "Article saved successfully")
            /\ news_posts' = [news_posts EXCEPT ![PostKey(s)] = @ + 1]
    /\ UNCHANGED <<users, person, nextUserId, nextPersonId, uniqueIndex, foreignKey, variant,
                   store>>

UnsaveBegin(s, url) ==
    /\ Idle(s)
    /\ variant = "full"
    /\ IF store[s].userId = NoId
       THEN Answer(s, "unsave", 401, "Please log in to unsave articles", "", "", "")
       ELSE IF url = ""
       THEN Answer(s, "unsave", 400, "URL is required", "", "", "")
       ELSE Await(s, "unsave", "unsave_delete", "", "", "", NoId, url)
    /\ UNCHANGED store
    /\ DbUnchanged

\* deleted = await db('news_posts').where({ user_id, url }).del()
UnsaveDelete(s) ==
    /\ At(s, "unsave_delete")
    /\ LET deleted == news_posts[PostKey(s)] IN
       /\ news_posts' = [news_posts EXCEPT ![PostKey(s)] = 0]
       /\ IF deleted = 0
          THEN Reply(s, "unsave", 404, "Article not found")
          ELSE Reply(s, "unsave", 200, "Article removed successfully")
    /\ UNCHANGED <<users, person, nextUserId, nextPersonId, uniqueIndex, foreignKey, variant,
                   store>>

(***************************************************************************)
(* The simplified variant (src/index.js lines 1-186): users only, errors   *)
(* travel to the next page in the session's flash slot.                    *)
(***************************************************************************)
SimpleUsernames == {"", " alice", "Alice"}
SimplePasswords == {"", "abc12", "password1"}

\* whereRaw('LOWER(username) = LOWER(?)', [username])
UsersWhereLowerUsername(tbl, username) ==
    {u \in tbl : Lower(u.username) = Lower(username)}

\* setFlash(req, { error }): merged over the flash already in the session
SetFlash(st, s, error) == [st EXCEPT ![s].flash = error]

\* getFlash(req): take the flash and delete it from the session
GetFlash(st, s) == [st EXCEPT ![s].flash = ""]

MinPasswordLengthSimple == 6

SimpleLoginBegin(s, username, password) ==
    /\ Idle(s)
    /\ variant = "simple"
    /\ IF Trim(username) = "" \/ password = ""
       THEN /\ Answer(s, "s_login", 302, "/login", username, password, "")
            /\ store' = SetFlash(store, s, "Please provide both username and password.")
       ELSE /\ Await(s, "s_login", "s_login_find", Trim(username), password, "",
                     NoId, "")
            /\ UNCHANGED store
    /\ DbUnchanged

SimpleLoginFind(s) ==
    /\ At(s, "s_login_find")
    /\ \E user \in First(UsersWhereLowerUsername(users, req[s].username)) :
          IF ~CredentialsValid(user, req[s].password)
          THEN /\ Reply(s, "s_login", 302, "/login")
               /\ store' = SetFlash(store, s, MsgInvalid)
          ELSE /\ Reply(s, "s_login", 302, "/")
               /\ store' = [store EXCEPT ![s].userId = user.user_id]
    /\ DbUnchanged

SimpleSignupValidation(username, password, confirmPassword) ==
    IF username = "" \/ password = "" THEN "Username and password are required."
    ELSE IF password # confirmPassword THEN "Passwords do not match."
    ELSE IF Len(password) < MinPasswordLengthSimple
         THEN "Password must be at least 6 characters long."
    ELSE ""

SimpleSignupBegin(s, username, password, confirmPassword) ==
    /\ Idle(s)
    /\ variant = "simple"
    /\ LET error == SimpleSignupValidation(Trim(username), password, confirmPassword)
       IN IF error # ""
          THEN /\ Answer(s, "s_signup", 302, "/signup", username, password,
                         confirmPassword)
               /\ store' = SetFlash(store, s, error)
          ELSE /\ Await(s, "s_signup", "s_signup_check", Trim(username), password,
                        confirmPassword, NoId, "")
               /\ UNCHANGED store
    /\ DbUnchanged

SimpleSignupCheck(s) ==
    /\ At(s, "s_signup_check")
    /\ IF UsersWhereLowerUsername(users, req[s].username) # {}
       THEN /\ Reply(s, "s_signup", 302, "/signup")
            /\ store' = SetFlash(store, s, MsgTaken)
       ELSE /\ Goto(s, "s_signup_insert")
            /\ UNCHANGED store
    /\ DbUnchanged

\* db('users').insert({ username, password: hashedPassword }).returning(...)
SimpleSignupInsert(s) ==
    /\ At(s, "s_signup_insert")
    /\ nextUserId <= MaxUserId
    /\ ~UsernameKeyPending(s, req[s].username)
    /\ nextUserId' = nextUserId + 1
    /\ IF UsernameKeyTaken(req[s].username, NoId)
       THEN /\ Reply(s, "s_signup", 302, "/signup")
            /\ store' = SetFlash(store, s, CatchFlash("s_signup"))
            /\ UNCHANGED users
       ELSE /\ \E salt \in Salts :
                 users' = users \cup {UserRow(nextUserId, req[s].username,
                                              BcryptHash(req[s].password, salt), FALSE)}
            /\ Reply(s, "s_signup", 302, "/")
            /\ store' = [store EXCEPT ![s].userId = nextUserId]
    /\ UNCHANGED <<person, news_posts, nextPersonId, uniqueIndex, foreignKey, variant>>

\* GET /login and GET /signup: show the flash once
SimpleGetForm(s, page) ==
    /\ Idle(s)
    /\ variant = "simple"
    /\ IF store[s].userId # NoId
       THEN Answer(s, page, 302, "/", "", "", "") /\ UNCHANGED store
       ELSE /\ Answer(s, page, 200, store[s].flash, "", "", "")
            /\ store' = GetFlash(store, s)
    /\ DbUnchanged

\* res.redirect(...) after setFlash(req, { error }): the page each message
\* is set for
FlashRedirect(error) ==
    IF error \in {"Please log in to access preferences.",
                  "Please provide both username and password.",
                  "Invalid username or password.",
                  "Something went wrong while logging in."}
    THEN "/login"
    ELSE "/signup"

\* the forms that call getFlash
FormPages == {"/login", "/signup"}

\* GET /preferences behind requireAuth
SimplePreferences(s) ==
    /\ Idle(s)
    /\ variant = "simple"
    /\ IF store[s].userId = NoId
       THEN /\ Answer(s, "s_preferences", 302, "/login", "", "", "")
            /\ store' = SetFlash(store, s, "Please log in to access preferences.")
       ELSE Answer(s, "s_preferences", 200, "preferences", "", "", "")
            /\ UNCHANGED store
    /\ DbUnchanged

\* GET /logout: req.session.destroy()
SimpleLogout(s) ==
    /\ Idle(s)
    /\ variant = "simple"
    /\ store[s] # EmptySession
    /\ Answer(s, "s_logout", 302, "/", "", "", "")
    /\ store' = [store EXCEPT ![s] = EmptySession]
    /\ DbUnchanged

(***************************************************************************)
(* The response is written to the client.                                  *)
(***************************************************************************)
Deliver ==
    /\ resp # NoResp
    /\ resp' = NoResp
    /\ UNCHANGED <<users, person, news_posts, nextUserId, nextPersonId,
                   uniqueIndex, foreignKey, variant, store, req>>

(***************************************************************************)
(* Specifications.                                                         *)
(***************************************************************************)
\* no other session has a request in flight
Alone(s) == \A q \in Sessions \ {s} : req[q].pc = "idle"

\* well-formed inputs: a user name, a password of the minimum length or more
ValidUsernames == Usernames \ {""}
ValidPasswords == {p \in Passwords : Len(p) >= MinPasswordLength}

\* sign-up of both variants, interleaved, with failing statements
NextSignup ==
    \/ \E s \in Sessions, u \in Usernames, p \in Passwords, c \in Passwords :
          SignupBegin(s, u, p, c)
    \/ \E s \in Sessions : SignupCheck(s)
    \/ \E s \in Sessions : SignupInsertUser(s)
    \/ \E s \in Sessions : SignupInsertPerson(s)
    \/ \E s \in Sessions : Logout(s)
    \/ \E s \in Sessions, u \in SimpleUsernames, p \in SimplePasswords,
          c \in SimplePasswords :
          SimpleSignupBegin(s, u, p, c)
    \/ \E s \in Sessions : SimpleSignupCheck(s)
    \/ \E s \in Sessions : SimpleSignupInsert(s)
    \/ \E s \in Sessions : SimpleLogout(s)
    \/ \E s \in Sessions : StatementFails(s)
    \/ Deliver

SpecSignup == Init /\ [][NextSignup]_vars

\* sign-up and login of both variants, one request at a time, every
\* statement succeeding
NextAuthSeq ==
    \/ \E s \in Sessions, u \in Usernames, p \in Passwords :
          Alone(s) /\ LoginBegin(s, u, p)
    \/ \E s \in Sessions : LoginFind(s)
    \/ \E s \in Sessions, u \in Usernames, p \in Passwords, c \in Passwords :
          Alone(s) /\ SignupBegin(s, u, p, c)
    \/ \E s \in Sessions : SignupCheck(s)
    \/ \E s \in Sessions : SignupInsertUser(s)
    \/ \E s \in Sessions : SignupInsertPerson(s)
    \/ \E s \in Sessions : Logout(s)
    \/ \E s \in Sessions, u \in SimpleUsernames, p \in SimplePasswords :
          Alone(s) /\ SimpleLoginBegin(s, u, p)
    \/ \E s \in Sessions : SimpleLoginFind(s)
    \/ \E s \in Sessions, u \in SimpleUsernames, p \in SimplePasswords,
          c \in SimplePasswords :
          Alone(s) /\ SimpleSignupBegin(s, u, p, c)
    \/ \E s \in Sessions : SimpleSignupCheck(s)
    \/ \E s \in Sessions : SimpleSignupInsert(s)
    \/ \E s \in Sessions : SimpleLogout(s)
    \/ Deliver

SpecAuthSeq == Init /\ [][NextAuthSeq]_vars

\* administrators at work: both sessions have logged in as the seeded admin
InitAdmin ==
    /\ InitDb
    /\ foreignKey = "none"
    /\ variant = "full"
    /\ store = [s \in Sessions |-> LoginSession(EmptySession, SeedAdmin)]
    /\ req = [s \in Sessions |-> IdleReq]
    /\ resp = NoResp

NextAdmin ==
    \/ \E s \in Sessions, u \in ValidUsernames, p \in ValidPasswords :
          SignupBegin(s, u, p, p)
    \/ \E s \in Sessions : SignupCheck(s)
    \/ \E s \in Sessions : SignupInsertUser(s)
    \/ \E s \in Sessions : SignupInsertPerson(s)
    \/ \E s \in Sessions, op \in AdminOps \ {"admin_new"}, u \in ValidUsernames,
          p \in ValidPasswords, id \in PersonIds :
          AdminBegin(s, op, u, p, p, id)
    \/ \E s \in Sessions : RequireAdminQuery(s)
    \/ \E s \in Sessions : CreateCheck(s)
    \/ \E s \in Sessions : CreateInsertUser(s)
    \/ \E s \in Sessions : CreateInsertPerson(s)
    \/ \E s \in Sessions : UpdateFind(s)
    \/ \E s \in Sessions : UpdateDup(s)
    \/ \E s \in Sessions : UpdateUser(s)
    \/ \E s \in Sessions : UpdatePerson(s)
    \/ \E s \in Sessions : DeleteFind(s)
    \/ \E s \in Sessions : DeletePerson(s)
    \/ \E s \in Sessions : DeleteUser(s)
    \/ \E s \in Sessions : StatementFails(s)
    \/ Deliver

SpecAdmin == InitAdmin /\ [][NextAdmin]_vars

\* the admin guard while the admin flag is granted and revoked
InitFull == Init /\ variant = "full"

NextGuard ==
    \/ \E s \in Sessions, p \in Passwords \ {""} :
          LoginBegin(s, SeedAdmin.username, p)
    \/ \E s \in Sessions : LoginFind(s)
    \/ \E s \in Sessions, u \in ValidUsernames, p \in ValidPasswords :
          SignupBegin(s, u, p, p)
    \/ \E s \in Sessions : SignupCheck(s)
    \/ \E s \in Sessions : SignupInsertUser(s)
    \/ \E s \in Sessions : SignupInsertPerson(s)
    \/ \E s \in Sessions : Logout(s)
    \/ \E s \in Sessions : AdminBegin(s, "admin_new", "", "", "", NoId)
    \/ \E s \in Sessions : RequireAdminQuery(s)
    \/ \E id \in UserIds, flag \in BOOLEAN : SetAdminFlag(id, flag)
    \/ \E s \in Sessions : StatementFails(s)
    \/ Deliver

SpecGuard == InitFull /\ [][NextGuard]_vars

\* saving and unsaving articles, interleaved, with failing statements
NextSaved ==
    \/ \E s \in Sessions, u \in ValidUsernames, p \in ValidPasswords :
          LoginBegin(s, u, p)
    \/ \E s \in Sessions : LoginFind(s)
    \/ \E s \in Sessions : Logout(s)
    \/ \E s \in Sessions, t \in Titles, url \in Urls : SaveBegin(s, t, url)
    \/ \E s \in Sessions : SaveCheck(s)
    \/ \E s \in Sessions : SaveInsert(s)
    \/ \E s \in Sessions, url \in Urls : UnsaveBegin(s, url)
    \/ \E s \in Sessions : UnsaveDelete(s)
    \/ \E s \in Sessions : StatementFails(s)
    \/ Deliver

SpecSaved == InitFull /\ [][NextSaved]_vars

\* the same requests one at a time, every statement succeeding
NextSavedSeq ==
    \/ \E s \in Sessions, u \in ValidUsernames, p \in ValidPasswords :
          Alone(s) /\ LoginBegin(s, u, p)
    \/ \E s \in Sessions : LoginFind(s)
    \/ \E s \in Sessions : Logout(s)
    \/ \E s \in Sessions, t \in Titles, url \in Urls : Alone(s) /\ SaveBegin(s, t, url)
    \/ \E s \in Sessions : SaveCheck(s)
    \/ \E s \in Sessions : SaveInsert(s)
    \/ \E s \in Sessions, url \in Urls : Alone(s) /\ UnsaveBegin(s, url)
    \/ \E s \in Sessions : UnsaveDelete(s)
    \/ Deliver

SpecSavedSeq == InitFull /\ [][NextSavedSeq]_vars

\* the admin directory: create, delete, list, edit form, and logins
NextDirectory ==
    \/ \E s \in Sessions, p \in ValidPasswords :
          AdminBegin(s, "admin_create", "alice", p, p, NoId)
    \/ \E s \in Sessions, op \in {"admin_delete", "admin_edit"}, id \in PersonIds :
          AdminBegin(s, op, "", "", "", id)
    \/ \E s \in Sessions, search \in SearchTerms :
          AdminBegin(s, "admin_list", search, "", "", NoId)
    \/ \E s \in Sessions : RequireAdminQuery(s)
    \/ \E s \in Sessions : CreateCheck(s)
    \/ \E s \in Sessions : CreateInsertUser(s)
    \/ \E s \in Sessions : CreateInsertPerson(s)
    \/ \E s \in Sessions : DeleteFind(s)
    \/ \E s \in Sessions : DeletePerson(s)
    \/ \E s \in Sessions : DeleteUser(s)
    \/ \E s \in Sessions : ListQuery(s)
    \/ \E s \in Sessions : EditLoad(s)
    \/ \E s \in Sessions, p \in ValidPasswords : LoginBegin(s, "alice", p)
    \/ \E s \in Sessions : LoginFind(s)
    \/ \E s \in Sessions : StatementFails(s)
    \/ Deliver

SpecDirectory == InitAdmin /\ [][NextDirectory]_vars

\* saved articles while accounts are created and deleted: the sessions have
\* logged in as the administrator, sign-up binds a session to a new account
InitSavedDirectory ==
    /\ InitDb
    /\ foreignKey \in ForeignKeys
    /\ variant = "full"
    /\ store = [s \in Sessions |-> LoginSession(EmptySession, SeedAdmin)]
    /\ req = [s \in Sessions |-> IdleReq]
    /\ resp = NoResp

NextSavedDirectory ==
    \/ \E s \in Sessions, p \in ValidPasswords : SignupBegin(s, "alice", p, p)
    \/ \E s \in Sessions : SignupCheck(s)
    \/ \E s \in Sessions : SignupInsertUser(s)
    \/ \E s \in Sessions : SignupInsertPerson(s)
    \/ \E s \in Sessions : SaveBegin(s, "t1", "u1")
    \/ \E s \in Sessions : SaveCheck(s)
    \/ \E s \in Sessions : SaveInsert(s)
    \/ \E s \in Sessions : UnsaveBegin(s, "u1")
    \/ \E s \in Sessions : UnsaveDelete(s)
    \/ \E s \in Sessions, id \in PersonIds :
          AdminBegin(s, "admin_delete", "", "", "", id)
    \/ \E s \in Sessions : RequireAdminQuery(s)
    \/ \E s \in Sessions : DeleteFind(s)
    \/ \E s \in Sessions : DeletePerson(s)
    \/ \E s \in Sessions : DeleteUser(s)
    \/ \E s \in Sessions : StatementFails(s)
    \/ Deliver

SpecSavedDirectory == InitSavedDirectory /\ [][NextSavedDirectory]_vars

\* admin update one request at a time, every statement succeeding: accounts
\* are created, renamed and given new passwords, and log in
UpdatePasswords == {"", "abc1234", "password2"}

NextUpdateSeq ==
    \/ \E s \in Sessions, p \in ValidPasswords :
          Alone(s) /\ AdminBegin(s, "admin_create", "alice", p, p, NoId)
    \/ \E s \in Sessions, u \in ValidUsernames, p \in UpdatePasswords,
          id \in PersonIds :
          Alone(s) /\ AdminBegin(s, "admin_update", u, p, p, id)
    \/ \E s \in Sessions : RequireAdminQuery(s)
    \/ \E s \in Sessions : CreateCheck(s)
    \/ \E s \in Sessions : CreateInsertUser(s)
    \/ \E s \in Sessions : CreateInsertPerson(s)
    \/ \E s \in Sessions : UpdateFind(s)
    \/ \E s \in Sessions : UpdateDup(s)
    \/ \E s \in Sessions : UpdateUser(s)
    \/ \E s \in Sessions : UpdatePerson(s)
    \/ \E s \in Sessions, u \in ValidUsernames,
          p \in (ValidPasswords \cup UpdatePasswords) \ {"", "abc1234"} :
          Alone(s) /\ LoginBegin(s, u, p)
    \/ \E s \in Sessions : LoginFind(s)
    \/ Deliver

SpecUpdateSeq == InitAdmin /\ [][NextUpdateSeq]_vars

\* sign-up and login under user names that differ in letter case only, one
\* request at a time, every statement succeeding
CaseUsernames == {"alice", "Alice"}

NextCase ==
    \/ \E s \in Sessions, u \in CaseUsernames, p \in ValidPasswords :
          Alone(s) /\ SignupBegin(s, u, p, p)
    \/ \E s \in Sessions : SignupCheck(s)
    \/ \E s \in Sessions : SignupInsertUser(s)
    \/ \E s \in Sessions : SignupInsertPerson(s)
    \/ \E s \in Sessions, u \in CaseUsernames, p \in ValidPasswords :
          Alone(s) /\ LoginBegin(s, u, p)
    \/ \E s \in Sessions : LoginFind(s)
    \/ \E s \in Sessions : Logout(s)
    \/ \E s \in Sessions, u \in CaseUsernames, p \in ValidPasswords :
          Alone(s) /\ SimpleSignupBegin(s, u, p, p)
    \/ \E s \in Sessions : SimpleSignupCheck(s)
    \/ \E s \in Sessions : SimpleSignupInsert(s)
    \/ \E s \in Sessions, u \in CaseUsernames, p \in ValidPasswords :
          Alone(s) /\ SimpleLoginBegin(s, u, p)
    \/ \E s \in Sessions : SimpleLoginFind(s)
    \/ \E s \in Sessions : SimpleLogout(s)
    \/ Deliver

SpecCase == Init /\ [][NextCase]_vars

\* the handlers that set and take the flash, one login or sign-up at a time,
\* with failing statements
NextFlash ==
    \/ \E s \in Sessions, u \in SimpleUsernames, p \in SimplePasswords :
          Alone(s) /\ SimpleLoginBegin(s, u, p)
    \/ \E s \in Sessions : SimpleLoginFind(s)
    \/ \E s \in Sessions, u \in SimpleUsernames, p \in SimplePasswords,
          c \in SimplePasswords :
          Alone(s) /\ SimpleSignupBegin(s, u, p, c)
    \/ \E s \in Sessions : SimpleSignupCheck(s)
    \/ \E s \in Sessions : SimpleSignupInsert(s)
    \/ \E s \in Sessions, page \in FormPages : SimpleGetForm(s, page)
    \/ \E s \in Sessions : SimplePreferences(s)
    \/ \E s \in Sessions : SimpleLogout(s)
    \/ \E s \in Sessions : StatementFails(s)
    \/ Deliver

SpecFlash == Init /\ [][NextFlash]_vars

(***************************************************************************)
(* Properties.                                                             *)
(***************************************************************************)
\* C1: of the sign-up requests carrying one username at most one succeeds:
\* when a sign-up answers with the redirect to "/", the users table holds at
\* most one row with the username it carried.
C1_AtMostOneSignupSucceeds ==
    (resp.op \in {"signup", "s_signup"} /\ resp.status = 302 /\ resp.msg = "/")
        => Cardinality({u \in users : u.username = resp.username}) <= 1

\* C2: no two committed users rows have the same username, whatever the
\* interleaving of sign-up, admin create and admin update.
C2_UsernamesUnique ==
    \A u1 \in users, u2 \in users :
        u1.username = u2.username => u1.user_id = u2.user_id

\* C3: every committed person row has exactly one users row with its
\* user_id, and no users row is the owner of two person rows.
C3_ProfileHasOneAccount ==
    /\ \A p \in person : Cardinality({u \in users : u.user_id = p.user_id}) = 1
    /\ \A u \in users : Cardinality({p \in person : p.user_id = u.user_id}) <= 1

\* an admin delete has removed a profile with its account while another
\* account created since and its profile are still there
C3_Witness ==
    /\ resp.op = "admin_delete"
    /\ Cardinality(person) = 2
    /\ nextPersonId = 4
    /\ Cardinality(users) = 2

\* C4: sign-up, admin create, admin update and admin delete are all or
\* nothing: the step that ends such a request either leaves users and person
\* exactly as they were, or puts every statement of the operation into
\* effect, the last one included; and no committed account lacks a profile.
C4_AllOrNothing ==
    /\ [][\A s \in Sessions :
            (/\ req[s].op \in {"signup", "admin_create", "admin_update",
                               "admin_delete"}
             /\ req[s].pc # "idle"
             /\ req'[s].pc = "idle")
            => \/ users' = users /\ person' = person
               \/ /\ ApplyAllUsers(users', req[s].tx) = users'
                  /\ ApplyAllPerson(person', req[s].tx) = person'
                  /\ CASE req[s].op \in {"signup", "admin_create"} ->
                            \E p \in person' \ person : p.user_id = req[s].newUser
                       [] req[s].op = "admin_update" ->
                            resp'.status = 302 /\ resp'.msg = "/admin/users"
                       [] req[s].op = "admin_delete" ->
                            \A u \in users' : u.user_id # req[s].existing]_vars
    /\ [](\A u \in users : \E p \in person : p.user_id = u.user_id)

\* an insert into users was issued (its id is allocated), no profile id was
\* ever allocated, no transaction is open any more, and the tables are the
\* initial ones: the operation failed after its first write
C4_Witness ==
    /\ ~uniqueIndex
    /\ nextUserId > 2
    /\ nextPersonId = 2
    /\ \A s \in Sessions : req[s].tx = <<>>
    /\ resp.status \in {400, 500}
    /\ users = {SeedAdmin}
    /\ person = {PersonRow(1, 1)}

\* C5: once the admin flag of an account is false in the users table, no
\* request of a session bound to it passes requireAdmin: a 200 from an
\* admin page means the stored flag of the session's account is true.
C5_RevocationCheckedLive ==
    (resp.op = "admin_new" /\ resp.status = 200)
        => \E u \in users : u.user_id = store[resp.sid].userId /\ u.is_admin

\* C6: requireAdmin on a session whose cached flag is false asks the users
\* table: when the stored flag is true the request passes and the cached
\* flag becomes true, when it is false the answer is 403 and the cached
\* flag stays false.
C6_StaleFalseCacheRefreshed ==
    [][\A s \in Sessions :
         (/\ req[s].pc = "require_admin"
          /\ ~store[s].isAdmin
          /\ req'[s].pc = "idle"
          /\ resp'.status # 500)
         => IF \E u \in users : u.user_id = store[s].userId /\ u.is_admin
            THEN resp'.status = 200 /\ store'[s].isAdmin
            ELSE resp'.status = 403 /\ resp'.msg = "Forbidden" /\ ~store'[s].isAdmin
      ]_vars

\* a session that signed up (cached flag false) was promoted and has passed
C6_Witness ==
    /\ resp.op = "admin_new"
    /\ resp.status = 200
    /\ store[resp.sid].userId # SeedAdmin.user_id
    /\ store[resp.sid].isAdmin

\* C7: no two news_posts rows share the same (user_id, url) pair.
C7_NoDuplicateSavedArticle ==
    \A key \in DOMAIN news_posts : news_posts[key] <= 1

\* C8: one request at a time, a save of a url the account has not saved
\* answers 200 and inserts one row, a save of a saved url answers 409 and
\* inserts nothing, an unsave of a saved url answers 200 and removes it, and
\* an unsave of a url with no row answers 404.
C8_SaveUnsaveSequence ==
    [][\A s \in Sessions :
         (req[s].op \in {"save", "unsave"} /\ req[s].pc # "idle" /\ req'[s].pc = "idle")
         => LET before == news_posts[<<store[s].userId, req[s].url>>]
                after == news_posts'[<<store[s].userId, req[s].url>>]
            IN CASE req[s].op = "save" /\ before = 0 ->
                      resp'.status = 200 /\ after = 1
                 [] req[s].op = "save" /\ before > 0 ->
                      resp'.status = 409 /\ after = before
                 [] req[s].op = "unsave" /\ before > 0 ->
                      resp'.status = 200 /\ after = 0
                 [] req[s].op = "unsave" /\ before = 0 ->
                      resp'.status = 404 /\ after = 0
      ]_vars

\* the second save of a url has been refused and its single row is there
C8_Witness ==
    /\ resp.op = "save"
    /\ resp.status = 409
    /\ news_posts[<<store[resp.sid].userId, "u1">>] = 1

\* C9: one request at a time, a sign-up with a user name that is not in the
\* users table, a password of the minimum length and a matching confirmation
\* answers with the redirect to "/", creates the row and binds the session
\* to its id; and a login with the user name and the password of a row binds
\* the session to the id of that row.
C9_RegisterThenLogin ==
    [][(resp = NoResp /\ resp' # NoResp) =>
         LET r == resp'
             name == IF r.op = "s_signup" THEN Trim(r.username) ELSE r.username
             free == IF r.op = "s_signup"
                     THEN \A u \in users : Lower(u.username) # Lower(name)
                     ELSE \A u \in users : u.username # name
             minimum == IF r.op = "s_signup" THEN MinPasswordLengthSimple
                        ELSE MinPasswordLength
         IN /\ (/\ r.op \in {"signup", "s_signup"}
                /\ name # ""
                /\ free
                /\ Len(r.password) >= minimum
                /\ r.confirm = r.password)
               => /\ r.status = 302 /\ r.msg = "/"
                  /\ \A u \in users : u.user_id # store'[r.sid].userId
                  /\ \E u \in users' :
                        /\ u.user_id = store'[r.sid].userId
                        /\ u.username = name
                        /\ BcryptCompare(r.password, u.password)
            /\ \A u \in users :
                 (/\ r.op \in {"login", "s_login"}
                  /\ u.username = r.username
                  /\ BcryptCompare(r.password, u.password))
                 => /\ r.status = 302 /\ r.msg = "/"
                    /\ store'[r.sid].userId = u.user_id
      ]_vars

\* a login has bound a session to an account that a sign-up created
C9_Witness ==
    /\ resp.op \in {"login", "s_login"}
    /\ resp.status = 302
    /\ resp.msg = "/"
    /\ store[resp.sid].userId > SeedAdmin.user_id

\* C10: a sign-up whose user name or password is missing, whose password is
\* shorter than the minimum (8, or 6 in the simplified variant) or differs
\* from its confirmation is answered with the validation error (status 400
\* and the message; in the simplified variant the redirect to /signup with
\* the message in the flash), users and person are unchanged and the
\* session's binding is not touched.
C10_InvalidRegisterRejected ==
    [][(/\ resp = NoResp
        /\ resp'.op \in {"signup", "s_signup"}
        /\ \/ resp'.username = ""
           \/ resp'.password = ""
           \/ Len(resp'.password) < (IF resp'.op = "signup" THEN 8 ELSE 6)
           \/ resp'.password # resp'.confirm)
       => LET messages == IF resp'.op = "signup"
                          THEN {"Username and password are required.",
                                "Passwords do not match.",
                                "Password must be at least 8 characters."}
                          ELSE {"Username and password are required.",
                                "Passwords do not match.",
                                "Password must be at least 6 characters long."}
          IN /\ IF resp'.op = "signup"
                THEN resp'.status = 400 /\ resp'.msg \in messages
                ELSE /\ resp'.status = 302 /\ resp'.msg = "/signup"
                     /\ store'[resp'.sid].flash \in messages
             /\ users' = users
             /\ person' = person
             /\ store'[resp'.sid].userId = store[resp'.sid].userId
      ]_vars

\* a sign-up with a confirmation that differs was refused on an unbound
\* session while an earlier sign-up's account exists
C10_Witness ==
    /\ resp.op \in {"signup", "s_signup"}
    /\ resp.password # ""
    /\ resp.password # resp.confirm
    /\ store[resp.sid].userId = NoId
    /\ Cardinality(users) = 2

\* C11: a login with a user name that no row has and a login with the user
\* name of a row and a password its hash does not match get the same
\* response, a function of the request alone (401 with the generic message
\* and the user name echoed; in the simplified variant the redirect to
\* /login with the generic message in the flash), and neither changes the
\* session's binding.
C11_LoginFailuresIndistinguishable ==
    [][\A s \in Sessions :
         (req[s].pc \in {"login_find", "s_login_find"} /\ req'[s].pc = "idle")
         => LET full == req[s].op = "login"
                rows == IF full
                        THEN {u \in users : u.username = req[s].username}
                        ELSE {u \in users : Lower(u.username) = Lower(req[s].username)}
                wrong(u) == u.password.digest #
                              Digest(req[s].password, u.password.salt, u.password.rounds)
            IN (rows = {} \/ \A u \in rows : wrong(u))
               => /\ resp' = [sid |-> s, op |-> req[s].op,
                              status |-> IF full THEN 401 ELSE 302,
                              msg |-> IF full THEN "Invalid username or password."
                                      ELSE "/login",
                              username |-> req[s].username,
                              password |-> req[s].password, confirm |-> "",
                              people |-> {}]
                  /\ store'[s] = IF full THEN store[s]
                                 ELSE [store[s] EXCEPT
                                         !.flash = "Invalid username or password."]
      ]_vars

\* a login with the user name of an account and a wrong password was refused
\* after a login with an unknown user name would have been
C11_Witness ==
    /\ resp.op \in {"login", "s_login"}
    /\ resp.status \in {401, 302}
    /\ resp.msg \in {"Invalid username or password.", "/login"}
    /\ \E u \in users : u.user_id > SeedAdmin.user_id /\ u.username = resp.username
    /\ store[resp.sid].userId = NoId

\* C12: when an admin delete of a profile ends without rolling back, the
\* person row and its users row are gone; rows that are gone stay gone (an
\* id that is allocated and not being inserted is not used again); from then on the edit form of a person_id with no row
\* answers with the redirect to the list, a list shows only rows of person,
\* and no login binds a session to an id with no users row.
C12_DeletedStaysDeleted ==
    [][/\ \A s \in Sessions :
            /\ (/\ req[s].op = "admin_delete"
                /\ req[s].pc = "delete_user"
                /\ req'[s].pc = "idle"
                /\ ~(req[s].tx # <<>> /\ users' = users /\ person' = person))
               => /\ \A p \in person' : p.person_id # req[s].id
                  /\ \A u \in users' : u.user_id # req[s].existing
            /\ (req[s].pc = "edit_load" /\ req'[s].pc = "idle"
                /\ \A p \in person : p.person_id # req[s].id)
               => resp'.status = 302 /\ resp'.msg = "/admin/users"
            /\ (req[s].pc = "list_query" /\ req'[s].pc = "idle" /\ resp'.status = 200)
               => resp'.people \subseteq {p.person_id : p \in person}
            /\ (req[s].pc = "login_find" /\ req'[s].pc = "idle"
                /\ resp'.status = 302)
               => \E u \in users : u.user_id = store'[s].userId
       /\ \A id \in PersonIds :
            (id < nextPersonId /\ \A p \in person : p.person_id # id)
            => \A p \in person' : p.person_id # id
       /\ \A id \in UserIds :
            (/\ id < nextUserId
             /\ \A u \in users : u.user_id # id
             /\ \A s \in Sessions : req[s].newUser # id)
            => \A u \in users' : u.user_id # id
      ]_vars

\* alice was created and deleted again, and the edit form of a profile
\* answered with the redirect to the list
C12_Witness ==
    /\ resp.op = "admin_edit"
    /\ resp.status = 302
    /\ nextPersonId = 3
    /\ person = {PersonRow(1, 1)}
    /\ users = {SeedAdmin}

\* C13: an admin delete of a person_id with no row leaves users and person
\* unchanged, and every admin delete that reaches its handler, whether it
\* removed rows or found none, answers with the same redirect to
\* /admin/users.
C13_DeleteIdempotent ==
    [][\A s \in Sessions :
         (/\ req[s].pc \in {"delete_find", "delete_person", "delete_user"}
          /\ req'[s].pc = "idle")
         => /\ resp' = [sid |-> s, op |-> "admin_delete", status |-> 302,
                        msg |-> "/admin/users", username |-> "", password |-> "",
                        confirm |-> "", people |-> {}]
            /\ (\A p \in person : p.person_id # req[s].id)
               => users' = users /\ person' = person
      ]_vars

\* a delete is about to look up a person_id that was deleted before
C13_Witness ==
    \E s \in Sessions :
        /\ req[s].pc = "delete_find"
        /\ req[s].id < nextPersonId
        /\ \A p \in person : p.person_id # req[s].id

\* C14: every news_posts row carries the user_id of a row of users.
C14_SavedArticleHasAccount ==
    \A key \in DOMAIN news_posts :
        news_posts[key] > 0 => \E u \in users : u.user_id = key[1]

\* C15: a response that reports a duplicate user name has status 409, and
\* a response that reports an unexpected failure with the generic message
\* has a 500-level status.
C15_TaxonomyStatuses ==
    /\ resp.msg \in {"That username is already taken.",
                     "An account with that username already exists."}
       => resp.status = 409
    /\ resp.msg = "Something went wrong. Please try again."
       => resp.status >= 500

\* C16: one request at a time, an admin update of a person_id with no row
\* answers with the redirect to the list and writes nothing; an update to a
\* user name that a different account has is refused with the duplicate
\* message and writes nothing; an update to a user name that only the
\* account itself has goes through every statement and ends with the
\* redirect and the account carrying that name.
C16_UpdateDuplicateAndNotFound ==
    [][\A s \in Sessions :
         LET other == \E u \in users : /\ u.username = req[s].username
                                       /\ u.user_id # req[s].existing
             unchanged == users' = users /\ person' = person
         IN /\ (req[s].pc = "update_find" /\ req'[s].pc # "update_find")
               => IF \A p \in person : p.person_id # req[s].id
                  THEN /\ req'[s].pc = "idle"
                       /\ resp'.status = 302 /\ resp'.msg = "/admin/users"
                       /\ unchanged
                  ELSE req'[s].pc = "update_dup" /\ unchanged
            /\ (req[s].pc = "update_dup" /\ req'[s].pc # "update_dup")
               => IF other
                  THEN /\ req'[s].pc = "idle"
                       /\ resp'.msg = "That username is already taken."
                       /\ resp'.status # 302
                       /\ unchanged
                  ELSE req'[s].pc = "update_user" /\ unchanged
            /\ (req[s].pc = "update_user" /\ req'[s].pc # "update_user")
               => req'[s].pc = "update_person" /\ unchanged
            /\ (req[s].pc = "update_person" /\ req'[s].pc # "update_person")
               => /\ req'[s].pc = "idle"
                  /\ resp'.status = 302 /\ resp'.msg = "/admin/users"
                  /\ \E u \in users' : /\ u.user_id = req[s].existing
                                       /\ u.username = req[s].username
      ]_vars

\* an update to the user name of another account was refused
C16_Witness ==
    /\ resp.op = "admin_update"
    /\ resp.msg = "That username is already taken."
    /\ Cardinality(users) = 2
    /\ \E u \in users : u.username = resp.username

\* C17: one request at a time, an admin update with an empty password
\* leaves the account's stored hash as it was, so every password bcrypt
\* accepted for it before is accepted after and no other is; an update with
\* a new password that passed validation stores a hash of that password;
\* an update with a new password that is too short is answered 400 (403 to
\* a session that is not an administrator's) and writes nothing.
C17_HashKeptWithoutPassword ==
    [][\A s \in Sessions :
         /\ (req[s].pc = "update_person" /\ req'[s].pc = "idle")
            => \A old \in users :
                 old.user_id = req[s].existing
                 => \E new \in users' :
                      /\ new.user_id = old.user_id
                      /\ IF req[s].password = ""
                         THEN /\ new.password = old.password
                              /\ \A p \in Passwords \cup UpdatePasswords :
                                   BcryptCompare(p, new.password)
                                     <=> BcryptCompare(p, old.password)
                         ELSE new.password.digest =
                                Digest(req[s].password, new.password.salt,
                                       new.password.rounds)
         /\ (resp = NoResp /\ resp'.op = "admin_update" /\ resp'.sid = s
             /\ resp'.password # "" /\ Len(resp'.password) < 8)
            => resp'.status \in {400, 403} /\ users' = users /\ person' = person
      ]_vars

\* an account was renamed without a password and its old password still
\* logs in under the new name
C17_Witness ==
    /\ resp.op = "login"
    /\ resp.status = 302
    /\ resp.msg = "/"
    /\ resp.username = "alice"
    /\ store[resp.sid].userId = SeedAdmin.user_id
    /\ \E u \in users : /\ u.user_id = SeedAdmin.user_id
                         /\ u.username = "alice"
                         /\ u.password = SeedAdmin.password

\* C18: one request at a time, a sign-up whose user name equals an existing
\* account's user name up to letter case is refused with the duplicate
\* message and no step adds a users row with such a name; a login whose
\* user name equals an account's up to letter case, with that account's
\* password, binds the session to that account.
C18_CaseInsensitiveUsernames ==
    [][\A s \in Sessions :
         LET match == {u \in users : Lower(u.username) = Lower(req[s].username)}
         IN /\ (req[s].pc \in {"signup_check", "s_signup_check"}
                /\ req'[s].pc # req[s].pc /\ match # {})
               => /\ req'[s].pc = "idle"
                  /\ users' = users
                  /\ \/ resp'.msg = "An account with that username already exists."
                     \/ store'[s].flash = "That username is already taken."
            /\ \A new \in users' \ users :
                 \A u \in users : Lower(u.username) # Lower(new.username)
            /\ (req[s].pc \in {"login_find", "s_login_find"}
                /\ req'[s].pc # req[s].pc
                /\ \E u \in match : CredentialsValid(u, req[s].password))
               => \E u \in match : store'[s].userId = u.user_id
      ]_vars

\* C19: a form that calls getFlash shows the message the session holds and
\* leaves the session without one, so a message is shown at most once; and
\* the message a form shows was set for the redirect to that form.
C19_FlashTakeAndClear ==
    [][(resp = NoResp /\ resp'.op \in FormPages /\ resp'.status = 200)
       => /\ resp'.msg = store[resp'.sid].flash
          /\ store'[resp'.sid].flash = ""
          /\ resp'.msg # "" => FlashRedirect(resp'.msg) = resp'.op
      ]_vars

\* C20: every session that is bound to an account identifier is bound to
\* the identifier of a row of users.
C20_BoundSessionHasAccount ==
    \A s \in Sessions :
        store[s].userId # NoId
        => \E u \in users : u.user_id = store[s].userId

====
